---- MODULE Spec2Model ----
(***************************************************************************)
(* A model of stonks (src/main.rs): a stock-transaction ledger kept in a   *)
(* MongoDB database, with the moving-average replay of calculate_position. *)
(*                                                                         *)
(* The running cost of a position is an f64 in the source, so the model    *)
(* carries IEEE-754 binary64 values with their 53-bit significand and      *)
(* round-to-nearest-even: a finite value is  (-1)^s * m * 2^e  with m an   *)
(* odd natural number of at most 53 bits (in limbs, see below), or         *)
(* m = <<>> for zero.  Exponent overflow and subnormals are out of reach   *)
(* of the values used here and are not modelled.                           *)
(***************************************************************************)
EXTENDS Integers, Sequences, FiniteSets, TLC

(***************************************************************************)
(* Natural numbers of any size, as sequences of limbs (digits in base      *)
(* 2^LimbBits), least significant limb first, with no zero limb in the top *)
(* place (<<>> is 0).  They carry the 53-bit significands and the exact    *)
(* intermediate results that are then rounded.                             *)
(***************************************************************************)
LimbBits == 15

Base == 2^LimbBits

Max(a, b) == IF a >= b THEN a ELSE b

Min(a, b) == IF a <= b THEN a ELSE b

Abs(n) == IF n < 0 THEN 0 - n ELSE n

RECURSIVE NatLimbs(_)
NatLimbs(n) == IF n = 0 THEN <<>> ELSE <<n % Base>> \o NatLimbs(n \div Base)

RECURSIVE SmallBitLen(_)
SmallBitLen(n) == IF n = 0 THEN 0 ELSE 1 + SmallBitLen(n \div 2)

RECURSIVE SmallLowZeros(_)
SmallLowZeros(n) == IF n % 2 = 1 THEN 0 ELSE 1 + SmallLowZeros(n \div 2)

Limb(b, i) == IF i >= 1 /\ i <= Len(b) THEN b[i] ELSE 0

RECURSIVE BTrim(_)
BTrim(b) ==
  IF b = <<>> \/ b[Len(b)] # 0 THEN b ELSE BTrim(SubSeq(b, 1, Len(b) - 1))

BitLen(b) ==
  IF b = <<>> THEN 0 ELSE (Len(b) - 1) * LimbBits + SmallBitLen(b[Len(b)])

RECURSIVE BAddR(_, _, _, _, _)
BAddR(a, b, i, c, acc) ==
  IF i > Max(Len(a), Len(b))
  THEN IF c = 1 THEN Append(acc, 1) ELSE acc
  ELSE LET t == Limb(a, i) + Limb(b, i) + c
       IN  BAddR(a, b, i + 1, t \div Base, Append(acc, t % Base))

BAdd(a, b) == BAddR(a, b, 1, 0, <<>>)

\* a - b for a >= b
RECURSIVE BSubR(_, _, _, _, _)
BSubR(a, b, i, c, acc) ==
  IF i > Len(a)
  THEN BTrim(acc)
  ELSE LET t == Limb(a, i) - Limb(b, i) - c
       IN  BSubR(a, b, i + 1, IF t < 0 THEN 1 ELSE 0,
                 Append(acc, IF t < 0 THEN t + Base ELSE t))

BSub(a, b) == BSubR(a, b, 1, 0, <<>>)

\* the top limb where a and b differ decides; 0 when they are equal
RECURSIVE BCmpR(_, _, _)
BCmpR(a, b, i) ==
  IF i = 0 THEN 0
  ELSE IF a[i] > b[i] THEN 1
  ELSE IF a[i] < b[i] THEN 0 - 1
  ELSE BCmpR(a, b, i - 1)

BCmp(a, b) ==
  IF Len(a) > Len(b) THEN 1
  ELSE IF Len(a) < Len(b) THEN 0 - 1
  ELSE BCmpR(a, b, Len(a))

\* a * n for a natural n <= Base
RECURSIVE BMulSmallR(_, _, _, _, _)
BMulSmallR(a, n, i, c, acc) ==
  IF i > Len(a)
  THEN acc \o NatLimbs(c)
  ELSE LET t == a[i] * n + c
       IN  BMulSmallR(a, n, i + 1, t \div Base, Append(acc, t % Base))

BMulSmall(a, n) == IF n = 0 THEN <<>> ELSE BMulSmallR(a, n, 1, 0, <<>>)

\* quotient and remainder of a by a natural n, 0 < n <= Base (long division)
RECURSIVE BDivSmallR(_, _, _, _, _)
BDivSmallR(a, n, i, r, acc) ==
  IF i = 0
  THEN [q |-> BTrim(acc), r |-> r]
  ELSE LET t == r * Base + a[i]
       IN  BDivSmallR(a, n, i - 1, t % n, <<t \div n>> \o acc)

BDivSmall(a, n) == BDivSmallR(a, n, Len(a), 0, <<>>)

\* a * 2^s
BShl(a, s) ==
  IF a = <<>> THEN <<>>
  ELSE BMulSmall([i \in 1..(s \div LimbBits) |-> 0] \o a, 2^(s % LimbBits))

\* floor(a / 2^s), and whether a bit that is 1 was shifted out
BShr(a, s) ==
  LET drop == Min(s \div LimbBits, Len(a))
      d    == BDivSmall(SubSeq(a, drop + 1, Len(a)), 2^(s % LimbBits))
  IN  [q |-> d.q, nz |-> d.r # 0 \/ \E i \in 1..drop : a[i] # 0]

\* the lowest bit of a
BOdd(a) == a # <<>> /\ a[1] % 2 = 1

\* the number of low zero bits of a non-zero a
RECURSIVE LowZeros(_)
LowZeros(a) ==
  IF a[1] # 0 THEN SmallLowZeros(a[1]) ELSE LimbBits + LowZeros(Tail(a))

\* the natural number a, when it is below Base * Base
BSmall(a) == Limb(a, 1) + Base * Limb(a, 2)

(***************************************************************************)
(* f64.                                                                    *)
(***************************************************************************)
\* f64::MANTISSA_DIGITS: the significand of the f64 fields of Position
MantissaBits == 53

NaN == [k |-> "nan"]

Inf(s) == [k |-> "inf", s |-> s]

Fin(s, m, e) == [k |-> "fin", s |-> s, m |-> m, e |-> e]

Zero(s) == Fin(s, <<>>, 0)

IsNaN(x) == x.k = "nan"

IsInf(x) == x.k = "inf"

IsFinite(x) == x.k = "fin"

\* x == 0.0 (true of +0.0 and -0.0, false of NaN)
IsZero(x) == x.k = "fin" /\ x.m = <<>>

\* m * 2^e with the low zero bits of m moved into the exponent
Canon(s, m, e) ==
  IF m = <<>> THEN Zero(s)
  ELSE LET z == LowZeros(m) IN Fin(s, BShr(m, z).q, e + z)

\* The f64 nearest to (-1)^s * (n + f) * 2^e, ties to even, where n is given
\* by its bits and sticky says whether the fraction f (0 <= f < 1) is not 0.
RoundF(s, n, e, sticky) ==
  IF BitLen(n) <= MantissaBits
  THEN Canon(s, n, e)
  ELSE LET d      == BitLen(n) - MantissaBits
           half   == BShr(n, d - 1)
           kept   == BShr(half.q, 1).q
           guard  == BOdd(half.q)
           rest   == sticky \/ half.nz
           up     == guard /\ (rest \/ BOdd(kept))
       IN  Canon(s, IF up THEN BAdd(kept, <<1>>) ELSE kept, e + d)

\* n as f64, for an i64 n (exact below 2^53)
FromInt(n) == RoundF(IF n < 0 THEN 1 ELSE 0, NatLimbs(Abs(n)), 0, FALSE)

FNeg(x) ==
  IF IsNaN(x) THEN x
  ELSE IF IsInf(x) THEN Inf(1 - x.s)
  ELSE Fin(1 - x.s, x.m, x.e)

\* The exact sum and the exact product of finite values: a value Fin(s, m, e)
\* whose m may be longer than a significand, before it is rounded.
XAdd(x, y) ==
  IF IsZero(x) /\ IsZero(y) THEN Zero(IF x.s = 1 /\ y.s = 1 THEN 1 ELSE 0)
  ELSE IF IsZero(x) THEN y
  ELSE IF IsZero(y) THEN x
  ELSE LET e  == Min(x.e, y.e)
           a  == BShl(x.m, x.e - e)
           b  == BShl(y.m, y.e - e)
           c  == BCmp(a, b)
       IN  IF x.s = y.s THEN Canon(x.s, BAdd(a, b), e)
           ELSE IF c = 0 THEN Zero(0)
           ELSE IF c > 0 THEN Canon(x.s, BSub(a, b), e)
           ELSE Canon(y.s, BSub(b, a), e)

XMulInt(x, n) ==
  Canon((x.s + (IF n < 0 THEN 1 ELSE 0)) % 2, BMulSmall(x.m, Abs(n)), x.e)

\* whether the exact value v is an f64
Representable(v) == BitLen(v.m) <= MantissaBits

RoundX(v) == RoundF(v.s, v.m, v.e, FALSE)

\* x + y
FAdd(x, y) ==
  IF IsNaN(x) \/ IsNaN(y) THEN NaN
  ELSE IF IsInf(x) /\ IsInf(y) THEN (IF x.s = y.s THEN x ELSE NaN)
  ELSE IF IsInf(x) THEN x
  ELSE IF IsInf(y) THEN y
  ELSE RoundX(XAdd(x, y))

\* x - y
FSub(x, y) == FAdd(x, FNeg(y))

\* x * (n as f64), for an i64 n
FMulInt(x, n) ==
  LET sn == IF n < 0 THEN 1 ELSE 0
  IN  IF IsNaN(x) THEN NaN
      ELSE IF IsInf(x) THEN (IF n = 0 THEN NaN ELSE Inf((x.s + sn) % 2))
      ELSE RoundX(XMulInt(x, n))

\* x / (n as f64), for an i64 n; 0 as f64 is +0.0
FDivInt(x, n) ==
  LET sn == IF n < 0 THEN 1 ELSE 0
      sh == MantissaBits + 3 + SmallBitLen(Abs(n))
  IN  IF IsNaN(x) THEN NaN
      ELSE IF n = 0 THEN (IF IsZero(x) THEN NaN ELSE Inf(x.s))
      ELSE IF IsInf(x) THEN Inf((x.s + sn) % 2)
      ELSE IF IsZero(x) THEN Zero((x.s + sn) % 2)
      ELSE LET d == BDivSmall(BShl(x.m, sh), Abs(n))
           IN  RoundF((x.s + sn) % 2, d.q, x.e - sh, d.r # 0)

(***************************************************************************)
(* Values of the program.                                                  *)
(*                                                                         *)
(* Strings that are matched or used as names are sequences of characters.  *)
(* An Option is a record [some |-> FALSE] or [some |-> TRUE, v |-> value]. *)
(* Time is counted in ticks of chrono's clock; a BSON date keeps whole     *)
(* milliseconds only, and a millisecond is TicksPerMs ticks.               *)
(***************************************************************************)
None == [some |-> FALSE]

Some(v) == [some |-> TRUE, v |-> v]

\* the collection calculate_position and cmd_avgprice read
STOCKS == <<"s", "t", "o", "c", "k", "s">>

TicksPerMs == 2

\* Bson::DateTime(date.with_timezone(&Utc)): the instant, in whole milliseconds
BsonDate(t) == t \div TicksPerMs

\* rust_decimal::Decimal is m / 10^scale; Decimal::to_f64
ToF64(price) ==
  IF price.scale = 0 THEN FromInt(price.m)
  ELSE FDivInt(FromInt(price.m), 10^price.scale)

\* OperationKind's Display is its Debug name
KindToString(kind) == kind

ToLowercase(c) ==
  CASE c = "B" -> "b" [] c = "U" -> "u" [] c = "Y" -> "y" [] c = "S" -> "s"
    [] c = "E" -> "e" [] c = "L" -> "l" [] c = "H" -> "h" [] c = "O" -> "o"
    [] c = "D" -> "d" [] OTHER -> c

\* OperationKind::from_str, on the characters of the stored string
OperationKindFromStr(s) ==
  LET lower == [i \in 1..Len(s) |-> ToLowercase(s[i])]
  IN  IF lower = <<"b", "u", "y">> THEN "Buy"
      ELSE IF lower = <<"s", "e", "l", "l">> THEN "Sell"
      ELSE "Err"

\* the characters of kind.to_string()
KindChars(kind) ==
  IF kind = "Buy" THEN <<"B", "u", "y">> ELSE <<"S", "e", "l", "l">>

\* an unanchored "$regex" match of a pattern without metacharacters:
\* the pattern occurs somewhere in the name
RegexMatch(pat, name) ==
  \E i \in 0..(Len(name) - Len(pat)) : SubSeq(name, i + 1, i + Len(pat)) = pat

(***************************************************************************)
(* tokenize_line: lines 91-121.  A line is a sequence of characters.       *)
(***************************************************************************)
\* parts, current, in_quotes before the first character
TokInit == [parts |-> <<>>, current |-> <<>>, in_quotes |-> FALSE]

\* a bug the ' ' arm could have: a space splits inside quotes too
SpaceArmUnquoted(st) ==
  [st EXCEPT !.parts = Append(@, st.current), !.current = <<>>]

\* lines 97-104
SpaceArm(st) ==
  IF st.in_quotes THEN [st EXCEPT !.current = Append(@, " ")]
  ELSE [st EXCEPT !.parts = Append(@, st.current), !.current = <<>>]

\* lines 105-107
QuoteArm(st) == [st EXCEPT !.in_quotes = ~@]

\* lines 108-110
OtherArm(st, c) == [st EXCEPT !.current = Append(@, c)]

\* the body of the loop over line.chars()
TokStep(st, c) ==
  IF c = " " THEN SpaceArm(st)
  ELSE IF c = "\"" THEN QuoteArm(st)
  ELSE OtherArm(st, c)

\* lines 113-120: what is returned, and whether "Unmatched quote" is printed
TokReturnValue(st) ==
  [parts     |-> IF st.current # <<>> THEN Append(st.parts, st.current) ELSE st.parts,
   unmatched |-> st.in_quotes]

RECURSIVE TokFrom(_, _, _)
TokFrom(st, line, i) ==
  IF i > Len(line) THEN st ELSE TokFrom(TokStep(st, line[i]), line, i + 1)

tokenize_line(line) == TokReturnValue(TokFrom(TokInit, line, 1))

(***************************************************************************)
(* Statement::from_iter_safe (structopt, NoBinaryName) on a list of tokens: *)
(* the grammar that #[derive(StructOpt)] gives Statement and Command,      *)
(* lines 10-43.  A subcommand is named by its variant in kebab-case; no    *)
(* token at all is a Statement without command.  Of the argument types     *)
(* the model reads unsigned decimal numbers (i64, and Decimal without a    *)
(* fraction); every date token used here fails to parse.                   *)
(***************************************************************************)
LS == <<"l", "s">>

BUY == <<"b", "u", "y">>

SELL == <<"s", "e", "l", "l">>

AVGPRICE == <<"a", "v", "g", "-", "p", "r", "i", "c", "e">>

Digits == {"0", "1", "2", "3", "4", "5", "6", "7", "8", "9"}

DigitValue(c) ==
  CASE c = "0" -> 0 [] c = "1" -> 1 [] c = "2" -> 2 [] c = "3" -> 3 [] c = "4" -> 4
    [] c = "5" -> 5 [] c = "6" -> 6 [] c = "7" -> 7 [] c = "8" -> 8 [] c = "9" -> 9

IsNumber(t) == t # <<>> /\ \A i \in 1..Len(t) : t[i] \in Digits

RECURSIVE NumberOf(_, _)
NumberOf(t, n) ==
  IF n = 0 THEN 0 ELSE 10 * NumberOf(t, n - 1) + DigitValue(t[n])

ParseErr == [r |-> "err"]

ParseOk(command) == [r |-> "ok", command |-> command]

\* Buy and Sell: ticker quantity price [date]
ParseOperation(op, rest) ==
  IF Len(rest) = 3 /\ rest[1] # <<>> /\ rest[1][1] # "-"
     /\ IsNumber(rest[2]) /\ IsNumber(rest[3])
  THEN ParseOk(Some([op       |-> op,
                     ticker   |-> rest[1],
                     quantity |-> NumberOf(rest[2], Len(rest[2])),
                     price    |-> [m |-> NumberOf(rest[3], Len(rest[3])), scale |-> 0],
                     date     |-> None]))
  ELSE ParseErr

\* Ls: [filter];  AvgPrice: [filter] [until]
ParseFilter(op, rest) ==
  IF rest = <<>> THEN ParseOk(Some([op |-> op, filter |-> None, until |-> None]))
  ELSE IF Len(rest) = 1 /\ rest[1] # <<>> /\ rest[1][1] # "-"
  THEN ParseOk(Some([op |-> op, filter |-> Some(rest[1]), until |-> None]))
  ELSE ParseErr

FromIterSafe(tokens) ==
  IF tokens = <<>> THEN ParseOk(None)
  ELSE IF Head(tokens) = LS THEN ParseFilter("ls", Tail(tokens))
  ELSE IF Head(tokens) = AVGPRICE THEN ParseFilter("avgprice", Tail(tokens))
  ELSE IF Head(tokens) = BUY THEN ParseOperation("buy", Tail(tokens))
  ELSE IF Head(tokens) = SELL THEN ParseOperation("sell", Tail(tokens))
  ELSE ParseErr

\* lines 123-133: what parse_line returns, and what it prints on the way
parse_line(line) ==
  LET t == tokenize_line(line)
      p == FromIterSafe(t.parts)
  IN  [statement |-> IF p.r = "ok" THEN p.command ELSE None,
       out       |-> (IF t.unmatched THEN <<[t |-> "unmatched"]>> ELSE <<>>)
                     \o <<[t |-> "parts", parts |-> t.parts]>>
                     \o (IF p.r = "err" THEN <<[t |-> "error"]>> ELSE <<>>)]

(***************************************************************************)
(* The replay of calculate_position: lines 245-285.                        *)
(***************************************************************************)
Has(doc, field) == field \in DOMAIN doc

\* total_amount = 0f64, total_quantity = 0i64
FoldInit == [amount |-> Zero(0), quantity |-> 0, panic |-> FALSE]

\* a bug BuyStep could have: = for +=
BuyStepOverwrite(st, quantity, price) ==
  [amount   |-> FMulInt(price, quantity),
   quantity |-> st.quantity + quantity,
   panic    |-> FALSE]

BuyStep(st, quantity, price) ==
  [amount   |-> FAdd(st.amount, FMulInt(price, quantity)),
   quantity |-> st.quantity + quantity,
   panic    |-> FALSE]

\* a bug SellStep could have: the average taken out once, not per share
SellStepOnce(st, quantity) ==
  LET price == FDivInt(st.amount, st.quantity)
  IN  [amount   |-> FSub(st.amount, price),
       quantity |-> st.quantity - quantity,
       panic    |-> FALSE]

\* a bug SellStep could have: a sale of more than is held is rejected
SellStepRejecting(st, quantity) ==
  IF quantity > st.quantity THEN st
  ELSE LET price == FDivInt(st.amount, st.quantity)
       IN  [amount   |-> FSub(st.amount, FMulInt(price, quantity)),
            quantity |-> st.quantity - quantity,
            panic    |-> FALSE]

SellStep(st, quantity) ==
  LET price == FDivInt(st.amount, st.quantity)
  IN  [amount   |-> FSub(st.amount, FMulInt(price, quantity)),
       quantity |-> st.quantity - quantity,
       panic    |-> FALSE]

\* a bug FoldStep could have: a document that cannot be read is skipped
FoldStepSkip(st, doc) ==
  IF ~Has(doc, "quantity") \/ ~Has(doc, "kind") THEN st
  ELSE LET kind == OperationKindFromStr(doc.kind)
       IN  IF kind = "Err" THEN st
           ELSE IF kind = "Buy"
           THEN IF ~Has(doc, "price") THEN st
                ELSE BuyStep(st, doc.quantity, doc.price)
           ELSE SellStep(st, doc.quantity)

\* the body of the loop for one document that the cursor delivered;
\* an unwrap() on a missing field or an unknown kind panics
FoldStep(st, doc) ==
  IF st.panic THEN st
  ELSE IF ~Has(doc, "quantity") \/ ~Has(doc, "kind") THEN [st EXCEPT !.panic = TRUE]
  ELSE LET kind == OperationKindFromStr(doc.kind)
       IN  IF kind = "Err" THEN [st EXCEPT !.panic = TRUE]
           ELSE IF kind = "Buy"
           THEN IF ~Has(doc, "price") THEN [st EXCEPT !.panic = TRUE]
                ELSE BuyStep(st, doc.quantity, doc.price)
           ELSE SellStep(st, doc.quantity)

RECURSIVE FoldFrom(_, _, _)
FoldFrom(st, docs, i) ==
  IF i > Len(docs) THEN st ELSE FoldFrom(FoldStep(st, docs[i]), docs, i + 1)

Fold(docs) == FoldFrom(FoldInit, docs, 1)

\* a bug Average could have: no guard for an empty position
AverageUnguarded(amount, quantity) == FDivInt(amount, quantity)

\* lines 272-277
Average(amount, quantity) ==
  IF quantity = 0 \/ IsZero(amount) THEN Zero(0) ELSE FDivInt(amount, quantity)

\* lines 279-284
MkPosition(ticker, st) ==
  [ticker        |-> ticker,
   value         |-> st.amount,
   quantity      |-> st.quantity,
   average_price |-> Average(st.amount, st.quantity)]

\* lines 236-241: what calculate_position returns when find() fails
ErrorPosition(ticker) ==
  [ticker |-> ticker, value |-> Zero(0), quantity |-> 0, average_price |-> Zero(0)]

\* no Position: the call did not return (it panicked)
NoPosition == [ticker |-> <<>>]

(***************************************************************************)
(* Bounds of the model.                                                    *)
(***************************************************************************)
\* commands processed in one run of the program
MaxCmds == 2

\* documents found in the "stocks" collection when the program starts
MaxSeed == 2

\* the clock runs from 0 to MaxTime ticks
MaxTime == 2

\* documents in the database, whatever the collection
MaxDocs == 2

\* documents handed to one replay (ReplaySpec)
MaxCursor == 3

CmdTickers == {<<"A">>, STOCKS}

CmdQuantities == {0, 10}

\* the decimals 100 and 0.1
CmdPrices == {[m |-> 100, scale |-> 0], [m |-> 1, scale |-> 1]}

Times == 0..MaxTime

OptTimes == {None} \cup {Some(t) : t \in Times}

\* the dates given to buy and sell
CmdDates == {None, Some(MaxTime)}

Filters == {None, Some(<<"A">>)}

\* the documents of "stocks" carry the ticker they belong to
SeedDocs ==
  [ticker   : {<<"A">>},
   kind     : {KindChars("Buy"), KindChars("Sell")},
   quantity : {10},
   price    : {FromInt(100)},
   date     : {BsonDate(t) : t \in Times}]
  \cup
  [ticker   : {<<"B">>},
   kind     : {KindChars("Buy")},
   quantity : {10},
   price    : {FromInt(100)},
   date     : {BsonDate(0)}]

CollNames == CmdTickers \cup {STOCKS}

SeqsUpTo(S, n) == UNION {[1..k -> S] : k \in 0..n}

(***************************************************************************)
(* The store: db[name] is the collection name of database "stonks", its    *)
(* documents in the order of insertion (<<>>: there is no such             *)
(* collection).  A query without a sort returns the matching documents in  *)
(* an order the store chooses; a cursor may break off with an error after  *)
(* any number of documents.                                                *)
(***************************************************************************)
Orders(n) == {p \in [1..n -> 1..n] : \A i, j \in 1..n : p[i] = p[j] => i = j}

\* the sequences a cursor over the documents s may deliver
Deliveries(s) ==
  {[docs |-> [i \in 1..k |-> s[p[i]]], cut |-> k < Len(s)] :
     p \in Orders(Len(s)), k \in 0..Len(s)}

\* a bug FindFilter could have: $lt for $lte
FindFilterStrict(doc, ticker, date) ==
  /\ Has(doc, "ticker") /\ doc.ticker = ticker
  /\ Has(doc, "date") /\ doc.date < BsonDate(date)

\* lines 222-231: { ticker: ticker, date: { $lte: date } }
FindFilter(doc, ticker, date) ==
  /\ Has(doc, "ticker") /\ doc.ticker = ticker
  /\ Has(doc, "date") /\ doc.date <= BsonDate(date)

Matching(store, ticker, date) ==
  LET Test(doc) == FindFilter(doc, ticker, date)
  IN  SelectSeq(store[STOCKS], Test)

\* lines 214-285, for a cutoff date: every way the call can go.  find() fails
\* (find = "err"), or the cursor delivers docs and the loop replays them.
CalculatePosition(store, ticker, date) ==
  {[ticker |-> ticker, date |-> date, find |-> "err", docs |-> <<>>,
    cut |-> FALSE, panic |-> FALSE, pos |-> ErrorPosition(ticker)]}
  \cup
  {LET st == Fold(d.docs)
   IN  [ticker |-> ticker, date |-> date, find |-> "ok", docs |-> d.docs,
        cut |-> d.cut, panic |-> st.panic,
        pos |-> IF st.panic THEN NoPosition ELSE MkPosition(ticker, st)] :
     d \in Deliveries(Matching(store, ticker, date))}

\* lines 184-193: the _id values of [$match ticker ~ filter,] $group by $ticker;
\* a document without the field is grouped under null (None)
GroupIds(store, filter) ==
  {IF Has(store[STOCKS][i], "ticker") THEN Some(store[STOCKS][i].ticker) ELSE None :
     i \in {j \in 1..Len(store[STOCKS]) :
              filter.some =>
                /\ Has(store[STOCKS][j], "ticker")
                /\ RegexMatch(filter.v, store[STOCKS][j].ticker)}}

SetToSeqs(S) == {s \in [1..Cardinality(S) -> S] : \A i, j \in DOMAIN s : s[i] = s[j] => i = j}

\* lines 208-211: the calls of average_price, one ticker after the other,
\* up to a call that panics
RECURSIVE CallSeqs(_, _, _)
CallSeqs(store, tickers, date) ==
  IF tickers = <<>> THEN {<<>>}
  ELSE UNION {IF c.panic THEN {<<c>>}
              ELSE {<<c>> \o rest : rest \in CallSeqs(store, Tail(tickers), date)} :
                c \in CalculatePosition(store, Head(tickers), date)}

\* what the calls print: the query's error, then the ticker and its average
RECURSIVE CallsOut(_)
CallsOut(cs) ==
  IF cs = <<>> THEN <<>>
  ELSE (IF Head(cs).find = "err" THEN <<[t |-> "error"]>> ELSE <<>>)
       \o (IF Head(cs).panic THEN <<>>
           ELSE <<[t |-> "avg", ticker |-> Head(cs).ticker,
                   average |-> Head(cs).pos.average_price]>>)
       \o CallsOut(Tail(cs))

\* lines 181-212: every way cmd_avgprice can go at time t
AvgPriceRuns(store, t, filter, until) ==
  LET date == IF until.some THEN until.v ELSE t
  IN  {[agg |-> "err", calls |-> <<>>, out |-> <<[t |-> "error"]>>, panic |-> FALSE]}
      \cup UNION
      {LET ids == g.docs
           agg == IF g.cut THEN "cut" ELSE "ok"
       IN  IF \E i \in 1..Len(ids) : ~ids[i].some
           THEN {[agg |-> agg, calls |-> <<>>, out |-> <<>>, panic |-> TRUE]}
           ELSE {[agg |-> agg, calls |-> cs, out |-> CallsOut(cs),
                  panic |-> cs # <<>> /\ cs[Len(cs)].panic] :
                   cs \in CallSeqs(store, [i \in 1..Len(ids) |-> ids[i].v], date)} :
         g \in UNION {Deliveries(s) : s \in SetToSeqs(GroupIds(store, filter))}}

\* lines 160-166: the document add_operation inserts
NewDocument(kind, quantity, price, date) ==
  [kind     |-> KindChars(KindToString(kind)),
   quantity |-> quantity,
   price    |-> ToF64(price),
   date     |-> BsonDate(date)]

\* a bug the insert could have: the document replaces the collection's
InsertOneReplace(store, name, doc) == [store EXCEPT ![name] = <<doc>>]

\* insert_one into the collection named by the ticker
InsertOne(store, name, doc) == [store EXCEPT ![name] = Append(@, doc)]

\* lines 137-139: list_collection_names with { name: { $regex: filter or "" } }
ListCollectionNames(store, filter) ==
  {n \in CollNames : store[n] # <<>> /\ RegexMatch(IF filter.some THEN filter.v ELSE <<>>, n)}

(***************************************************************************)
(* The program: App::run reads statements and process_statement carries    *)
(* each one out.                                                           *)
(***************************************************************************)
VARIABLES
  db,      \* the collections of database "stonks"
  now,     \* chrono::Local::now(), in ticks
  pc,      \* "repl": in the loop of run; "panicked": ended by a panic
  nread,   \* statements processed so far
  cmd,     \* the statement processed last, and the time (at) it was
  status,  \* how its store operation (insert, aggregate, list) went: "ok",
           \* "err" (it failed) or "cut" (its cursor broke off with an error)
  calls,   \* the calls of calculate_position it made, with what each returned
  out,     \* what it printed
  rdocs,   \* ReplaySpec: the documents the cursor delivers
  ri,      \* ReplaySpec: how many of them the loop has replayed
  rst,     \* ReplaySpec: total_amount, total_quantity
  rpos,    \* ReplaySpec: the Position returned
  args,    \* RunSpec: std::env::args() behind the program's name
  reads,   \* RunSpec: the lines readline has returned so far
  rl,      \* RunSpec: what the last readline returned and how the line parsed
  log,     \* RunSpec: the commands process_statement was called with so far
  ops,     \* RunSpec: the store operations made so far, each with the
           \* number of its command in log
  tok      \* TokenizeSpec: the line, the characters consumed, the locals

vars == <<db, now, pc, nread, cmd, status, calls, out, rdocs, ri, rst, rpos,
          args, reads, rl, log, ops, tok>>

shellvars == <<args, reads, rl, log, ops>>

tokvars == <<tok>>

progvars == <<db, now, pc, nread, cmd, status, calls, out>>

replayvars == <<rdocs, ri, rst, rpos>>

NoCmd == [op |-> "none"]

ReplayIdle ==
  /\ rdocs = <<>>
  /\ ri = 0
  /\ rst = FoldInit
  /\ rpos = NoPosition

NoRead == [r |-> "none"]

ShellIdle ==
  /\ args = <<>>
  /\ reads = <<>>
  /\ rl = NoRead
  /\ log = <<>>
  /\ ops = <<>>

\* nothing returned yet
NoTokens == [parts |-> <<>>, unmatched |-> FALSE]

TokIdle ==
  tok = [line |-> <<>>, i |-> 0, st |-> TokInit, done |-> FALSE, ret |-> NoTokens]

\* App::new: the client is connected to a database that holds what earlier
\* runs and other clients left in it
Init ==
  /\ \E seed \in SeqsUpTo(SeedDocs, MaxSeed) :
       db = [n \in CollNames |-> IF n = STOCKS THEN seed ELSE <<>>]
  /\ now = 0
  /\ pc = "repl"
  /\ nread = 0
  /\ cmd = NoCmd
  /\ status = "ok"
  /\ calls = <<>>
  /\ out = <<>>
  /\ ReplayIdle
  /\ ShellIdle
  /\ TokIdle

Tick ==
  /\ now < MaxTime
  /\ now' = now + 1
  /\ UNCHANGED <<db, pc, nread, cmd, status, calls, out, replayvars, shellvars, tokvars>>

Reading == pc = "repl" /\ nread < MaxCmds

RECURSIVE SumLen(_, _)
SumLen(store, names) ==
  IF names = {} THEN 0
  ELSE LET n == CHOOSE n \in names : TRUE
       IN  Len(store[n]) + SumLen(store, names \ {n})

Writing == Reading /\ SumLen(db, CollNames) < MaxDocs

\* a bug add_operation could have: the document is stored although the
\* insert is reported as failed
add_operation_stored(kind, ticker, quantity, price, date, inserted) ==
  LET actual_date == IF date.some THEN date.v ELSE now
  IN  /\ db' = InsertOne(db, ticker, NewDocument(kind, quantity, price, actual_date))
      /\ status' = IF inserted THEN "ok" ELSE "err"
      /\ out' = (IF inserted THEN <<>> ELSE <<[t |-> "error"]>>)
                \o <<[t |-> "op", kind |-> kind, ticker |-> ticker,
                      quantity |-> quantity, price |-> price, date |-> date]>>
      /\ calls' = <<>>

\* lines 152-171
add_operation(kind, ticker, quantity, price, date, inserted) ==
  LET actual_date == IF date.some THEN date.v ELSE now
  IN  /\ db' = IF inserted
                THEN InsertOne(db, ticker, NewDocument(kind, quantity, price, actual_date))
                ELSE db
      /\ status' = IF inserted THEN "ok" ELSE "err"
      /\ out' = (IF inserted THEN <<>> ELSE <<[t |-> "error"]>>)
                \o <<[t |-> "op", kind |-> kind, ticker |-> ticker,
                      quantity |-> quantity, price |-> price, date |-> date]>>
      /\ calls' = <<>>

\* lines 173-175, 296-298
CmdBuy(ticker, quantity, price, date) ==
  /\ Writing
  /\ \E inserted \in BOOLEAN :
       add_operation("Buy", ticker, quantity, price, date, inserted)
  /\ cmd' = [op |-> "buy", ticker |-> ticker, quantity |-> quantity,
             price |-> price, date |-> date, at |-> now]
  /\ nread' = nread + 1
  /\ UNCHANGED <<now, pc, replayvars, shellvars, tokvars>>

\* lines 177-179, 299-301
CmdSell(ticker, quantity, price, date) ==
  /\ Writing
  /\ \E inserted \in BOOLEAN :
       add_operation("Sell", ticker, quantity, price, date, inserted)
  /\ cmd' = [op |-> "sell", ticker |-> ticker, quantity |-> quantity,
             price |-> price, date |-> date, at |-> now]
  /\ nread' = nread + 1
  /\ UNCHANGED <<now, pc, replayvars, shellvars, tokvars>>

\* lines 181-212, 302-304
CmdAvgPrice(filter, until) ==
  /\ Reading
  /\ \E run \in AvgPriceRuns(db, now, filter, until) :
       /\ status' = run.agg
       /\ calls' = run.calls
       /\ out' = run.out
       /\ pc' = IF run.panic THEN "panicked" ELSE "repl"
  /\ cmd' = [op |-> "avgprice", filter |-> filter, until |-> until, at |-> now]
  /\ nread' = nread + 1
  /\ UNCHANGED <<db, now, replayvars, shellvars, tokvars>>

\* lines 135-150, 295: the names in an order the store chooses, each with its
\* estimated_document_count, whose failure panics (counted = FALSE)
CmdLs(filter) ==
  /\ Reading
  /\ \E listed \in BOOLEAN, counted \in BOOLEAN :
       \E names \in (IF listed THEN SetToSeqs(ListCollectionNames(db, filter)) ELSE {<<>>}) :
         /\ status' = IF listed THEN "ok" ELSE "err"
         /\ pc' = IF names # <<>> /\ ~counted THEN "panicked" ELSE "repl"
         /\ out' = IF names # <<>> /\ ~counted THEN <<>>
                   ELSE [i \in 1..Len(names) |->
                           [t |-> "ls", name |-> names[i], count |-> Len(db[names[i]])]]
                        \o <<[t |-> "lsfilter", filter |-> filter]>>
  /\ calls' = <<>>
  /\ cmd' = [op |-> "ls", filter |-> filter, at |-> now]
  /\ nread' = nread + 1
  /\ UNCHANGED <<db, now, replayvars, shellvars, tokvars>>

(***************************************************************************)
(* The replay alone, one document of the cursor at a time: the loop of     *)
(* lines 248-270 and the return of lines 272-285, for every short cursor.  *)
(***************************************************************************)
\* the prices 100, 200 and 0.1; a Sell carries a price too, which is not read
ReplayDocs ==
  [ticker   : {<<"A">>},
   kind     : {KindChars("Buy")},
   quantity : {1, 2, 3},
   price    : {FromInt(100), FromInt(200), ToF64([m |-> 1, scale |-> 1])},
   date     : {0}]
  \cup
  [ticker   : {<<"A">>},
   kind     : {KindChars("Sell")},
   quantity : {1, 2, 3},
   price    : {FromInt(100), ToF64([m |-> 1, scale |-> 1])},
   date     : {0}]

ProgramIdle ==
  /\ db = [n \in CollNames |-> <<>>]
  /\ now = 0
  /\ pc = "repl"
  /\ nread = 0
  /\ cmd = NoCmd
  /\ status = "ok"
  /\ calls = <<>>
  /\ out = <<>>

ReplayInit ==
  /\ rdocs \in SeqsUpTo(ReplayDocs, MaxCursor)
  /\ ri = 0
  /\ rst = FoldInit
  /\ rpos = NoPosition
  /\ ProgramIdle
  /\ ShellIdle
  /\ TokIdle

Replaying == ri < Len(rdocs) /\ ~rst.panic /\ rpos = NoPosition

\* lines 250-251: the kind of a document whose quantity and kind can be read
DocKind(doc) ==
  IF Has(doc, "quantity") /\ Has(doc, "kind") THEN OperationKindFromStr(doc.kind)
  ELSE "Err"

\* lines 253-257
ReplayBuy ==
  /\ Replaying
  /\ DocKind(rdocs[ri + 1]) = "Buy"
  /\ rst' = FoldStep(rst, rdocs[ri + 1])
  /\ ri' = ri + 1
  /\ UNCHANGED <<rdocs, rpos, progvars, shellvars, tokvars>>

\* lines 258-267
ReplaySell ==
  /\ Replaying
  /\ DocKind(rdocs[ri + 1]) = "Sell"
  /\ rst' = FoldStep(rst, rdocs[ri + 1])
  /\ ri' = ri + 1
  /\ UNCHANGED <<rdocs, rpos, progvars, shellvars, tokvars>>

\* lines 272-285
ReplayReturn ==
  /\ ri = Len(rdocs) /\ ~rst.panic /\ rpos = NoPosition
  /\ rpos' = MkPosition(<<"A">>, rst)
  /\ UNCHANGED <<rdocs, ri, rst, progvars, shellvars, tokvars>>

ReplayNext == ReplayBuy \/ ReplaySell \/ ReplayReturn

ReplaySpec == ReplayInit /\ [][ReplayNext]_vars

Next ==
  \/ Tick
  \/ \E ticker \in CmdTickers, quantity \in CmdQuantities, price \in CmdPrices,
        date \in CmdDates : CmdBuy(ticker, quantity, price, date)
  \/ \E ticker \in CmdTickers, quantity \in CmdQuantities, price \in CmdPrices,
        date \in CmdDates : CmdSell(ticker, quantity, price, date)
  \/ \E filter \in Filters, until \in OptTimes : CmdAvgPrice(filter, until)
  \/ \E filter \in Filters : CmdLs(filter)

Spec == Init /\ [][Next]_vars

(***************************************************************************)
(* The replay over a cursor that holds documents the loop cannot read:     *)
(* the unwrap() calls of lines 250, 251 and 254.                           *)
(***************************************************************************)
HOLD == <<"H", "o", "l", "d">>

AnomalyDocs ==
  {[ticker |-> <<"A">>, kind |-> KindChars("Buy"), quantity |-> 1,
    price |-> FromInt(100), date |-> 0],
   [ticker |-> <<"A">>, kind |-> KindChars("Sell"), quantity |-> 1,
    price |-> FromInt(100), date |-> 0],
   [ticker |-> <<"A">>, kind |-> <<"B", "U", "Y">>, quantity |-> 2,
    price |-> FromInt(100), date |-> 0],
   [ticker |-> <<"A">>, kind |-> KindChars("Buy"), quantity |-> 1, date |-> 0],
   [ticker |-> <<"A">>, kind |-> KindChars("Sell"), quantity |-> 1, date |-> 0],
   [ticker |-> <<"A">>, kind |-> KindChars("Buy"), price |-> FromInt(100), date |-> 0],
   [ticker |-> <<"A">>, quantity |-> 1, price |-> FromInt(100), date |-> 0],
   [ticker |-> <<"A">>, kind |-> HOLD, quantity |-> 1,
    price |-> FromInt(100), date |-> 0]}

AnomalyInit ==
  /\ rdocs \in SeqsUpTo(AnomalyDocs, MaxCursor)
  /\ ri = 0
  /\ rst = FoldInit
  /\ rpos = NoPosition
  /\ ProgramIdle
  /\ ShellIdle
  /\ TokIdle

\* lines 250-251: get_i64("quantity"), get_str("kind") or from_str fails
ReplayPanic ==
  /\ Replaying
  /\ DocKind(rdocs[ri + 1]) = "Err"
  /\ rst' = FoldStep(rst, rdocs[ri + 1])
  /\ ri' = ri + 1
  /\ UNCHANGED <<rdocs, rpos, progvars, shellvars, tokvars>>

AnomalyNext == ReplayBuy \/ ReplaySell \/ ReplayPanic \/ ReplayReturn

AnomalySpec == AnomalyInit /\ [][AnomalyNext]_vars

(***************************************************************************)
(* tokenize_line alone, one character of the line at a time.               *)
(***************************************************************************)
\* the longest line
MaxLineLen == 5

TokChars == {" ", "\"", "a", "b"}

TokenizeInit ==
  /\ tok \in {[line |-> l, i |-> 0, st |-> TokInit, done |-> FALSE, ret |-> NoTokens] :
                l \in SeqsUpTo(TokChars, MaxLineLen)}
  /\ ProgramIdle
  /\ ReplayIdle
  /\ ShellIdle

Tokenizing == ~tok.done /\ tok.i < Len(tok.line)

\* lines 97-104
TokSpace ==
  /\ Tokenizing
  /\ tok.line[tok.i + 1] = " "
  /\ tok' = [tok EXCEPT !.i = @ + 1, !.st = TokStep(tok.st, " ")]
  /\ UNCHANGED <<progvars, replayvars, shellvars>>

\* lines 105-107
TokQuote ==
  /\ Tokenizing
  /\ tok.line[tok.i + 1] = "\""
  /\ tok' = [tok EXCEPT !.i = @ + 1, !.st = TokStep(tok.st, "\"")]
  /\ UNCHANGED <<progvars, replayvars, shellvars>>

\* lines 108-110
TokOther ==
  /\ Tokenizing
  /\ tok.line[tok.i + 1] \notin {" ", "\""}
  /\ tok' = [tok EXCEPT !.i = @ + 1, !.st = TokStep(tok.st, tok.line[tok.i + 1])]
  /\ UNCHANGED <<progvars, replayvars, shellvars>>

\* lines 113-120: the last current is pushed when it is not empty
TokReturn ==
  /\ ~tok.done
  /\ tok.i = Len(tok.line)
  /\ tok' = [tok EXCEPT !.done = TRUE, !.ret = TokReturnValue(tok.st)]
  /\ UNCHANGED <<progvars, replayvars, shellvars>>

TokenizeNext == TokSpace \/ TokQuote \/ TokOther \/ TokReturn

TokenizeSpec == TokenizeInit /\ [][TokenizeNext]_vars

(***************************************************************************)
(* App::run, lines 308-342: one command from the process arguments, or the *)
(* loop that reads a line, parses it and has process_statement carry the   *)
(* statement out.                                                          *)
(***************************************************************************)
\* lines read in one run of the loop
MaxReads == 2

Sp(a, b) == a \o <<" ">> \o b

BuyA11 == Sp(Sp(Sp(BUY, <<"A">>), <<"1">>), <<"1">>)

RunLines ==
  {LS,
   BuyA11,
   Sp(Sp(Sp(Sp(BUY, <<>>), <<"A">>), <<"1">>), <<"1">>),
   Sp(Sp(Sp(BUY, STOCKS), <<"1">>), <<"1">>),
   Sp(Sp(Sp(SELL, <<"A">>), <<"1">>), <<"1">>),
   AVGPRICE,
   <<>>,
   Sp(LS, <<"\"", "A">>)}

RunArgs ==
  {<<>>,
   <<LS>>,
   <<AVGPRICE>>,
   <<BUY, <<"A">>, <<"1">>, <<"1">>>>,
   <<BUY, <<"A">>, <<"x">>, <<"1">>>>,
   <<<<"x">>>>}

RunSeeds ==
  {<<>>,
   <<[ticker |-> <<"A">>, kind |-> KindChars("Buy"), quantity |-> 10,
      price |-> FromInt(100), date |-> 0]>>}

RunInit ==
  /\ \E seed \in RunSeeds :
       db = [n \in CollNames |-> IF n = STOCKS THEN seed ELSE <<>>]
  /\ args \in RunArgs
  /\ now = 0
  /\ pc = "start"
  /\ nread = 0
  /\ cmd = NoCmd
  /\ status = "ok"
  /\ calls = <<>>
  /\ out = <<>>
  /\ reads = <<>>
  /\ rl = NoRead
  /\ log = <<>>
  /\ ops = <<>>
  /\ ReplayIdle
  /\ TokIdle

\* a bug line 313 could have: no return behind process_statement
FallThrough(panic) == IF panic THEN "panicked" ELSE "repl"

\* line 313: return
Returned(panic) == IF panic THEN "panicked" ELSE "done"

\* lines 325-328: back to readline
Looping(panic) == IF panic THEN "panicked" ELSE "repl"

Op(name, n, ok) == [op |-> name, n |-> n, ok |-> ok]

\* lines 292-306: the command is carried out; pcnext is where run goes on
\* when the command returns
ProcessStatement(c, pcnext) ==
  LET n == Len(log) + 1
  IN  /\ log' = Append(log, c)
      /\ cmd' = [at |-> now] @@ c
      /\ nread' = nread + 1
      /\ IF c.op \in {"buy", "sell"}
         THEN \E inserted \in BOOLEAN :
                /\ add_operation(IF c.op = "buy" THEN "Buy" ELSE "Sell",
                                 c.ticker, c.quantity, c.price, c.date, inserted)
                /\ ops' = Append(ops, Op("insert", n, inserted))
                /\ pc' = IF pcnext = "done" THEN Returned(FALSE) ELSE Looping(FALSE)
         ELSE IF c.op = "avgprice"
         THEN \E run \in AvgPriceRuns(db, now, c.filter, c.until) :
                /\ status' = run.agg
                /\ calls' = run.calls
                /\ out' = run.out
                /\ db' = db
                /\ ops' = ops \o <<Op("aggregate", n, run.agg # "err")>>
                              \o [i \in 1..Len(run.calls) |->
                                    Op("find", n, run.calls[i].find = "ok")]
                /\ pc' = IF pcnext = "done" THEN Returned(run.panic)
                         ELSE Looping(run.panic)
         ELSE \E listed \in BOOLEAN, counted \in BOOLEAN :
                \E names \in (IF listed THEN SetToSeqs(ListCollectionNames(db, c.filter))
                              ELSE {<<>>}) :
                  LET panic == names # <<>> /\ ~counted
                  IN  /\ status' = IF listed THEN "ok" ELSE "err"
                      /\ calls' = <<>>
                      /\ out' = IF panic THEN <<>>
                                ELSE [i \in 1..Len(names) |->
                                        [t |-> "ls", name |-> names[i],
                                         count |-> Len(db[names[i]])]]
                                     \o <<[t |-> "lsfilter", filter |-> c.filter]>>
                      /\ db' = db
                      /\ ops' = ops \o <<Op("list", n, listed)>>
                                    \o (IF panic THEN <<Op("count", n, FALSE)>>
                                        ELSE [i \in 1..Len(names) |-> Op("count", n, TRUE)])
                      /\ pc' = IF pcnext = "done" THEN Returned(panic)
                               ELSE Looping(panic)

\* lines 310-316: arguments were given
SingleShot ==
  /\ pc = "start"
  /\ args # <<>>
  /\ LET p == FromIterSafe(args)
     IN  IF p.r = "err"
         THEN /\ rl' = [r |-> "args", parsed |-> "err"]
              /\ out' = <<[t |-> "error"]>>
              /\ pc' = Returned(FALSE)
              /\ UNCHANGED <<db, status, calls, cmd, nread, log, ops>>
         ELSE IF ~p.command.some
         THEN /\ rl' = [r |-> "args", parsed |-> "none"]
              /\ pc' = "panicked"
              /\ UNCHANGED <<db, status, calls, out, cmd, nread, log, ops>>
         ELSE /\ rl' = [r |-> "args", parsed |-> "cmd"]
              /\ ProcessStatement(p.command.v, "done")
  /\ UNCHANGED <<now, args, reads, replayvars, tokvars>>

\* line 311: no arguments, the loop is entered
EnterRepl ==
  /\ pc = "start"
  /\ args = <<>>
  /\ pc' = "repl"
  /\ UNCHANGED <<db, now, nread, cmd, status, calls, out, reads, rl, log, ops, args,
                 replayvars, tokvars>>

\* lines 319-329: readline returns a line
ReplLine(line) ==
  /\ pc = "repl"
  /\ Len(reads) < MaxReads
  /\ reads' = Append(reads, line)
  /\ LET pl == parse_line(line)
     IN  /\ rl' = [r |-> "line", printed |-> pl.out, statement |-> pl.statement]
         /\ IF pl.statement.some
            THEN ProcessStatement(pl.statement.v, "repl")
            ELSE UNCHANGED <<db, status, calls, out, cmd, nread, log, ops, pc>>
  /\ UNCHANGED <<now, args, replayvars, tokvars>>

\* lines 330-335: Interrupted or Eof
ReplBreak(kind) ==
  /\ pc = "repl"
  /\ rl' = [r |-> kind]
  /\ pc' = "done"
  /\ UNCHANGED <<db, now, nread, cmd, status, calls, out, reads, log, ops, args,
                 replayvars, tokvars>>

\* lines 336-339: any other error of readline
ReplError ==
  /\ pc = "repl"
  /\ rl' = [r |-> "error"]
  /\ out' = <<[t |-> "error"]>>
  /\ pc' = "done"
  /\ UNCHANGED <<db, now, nread, cmd, status, calls, reads, log, ops, args,
                 replayvars, tokvars>>

RunNext ==
  \/ SingleShot
  \/ EnterRepl
  \/ \E line \in RunLines : ReplLine(line)
  \/ \E kind \in {"interrupted", "eof"} : ReplBreak(kind)
  \/ ReplError

RunSpec == RunInit /\ [][RunNext]_vars

(***************************************************************************)
(* Properties of the program (Spec).                                       *)
(***************************************************************************)
\* the call went through: find() succeeded and the cursor delivered all
CompleteCall(c) == c.find = "ok" /\ ~c.cut /\ ~c.panic

\* the cutoff date of the avgprice processed last
Cutoff == IF cmd.until.some THEN cmd.until.v ELSE cmd.at

\* the same kind, quantity, price and date
SameTransaction(d, e) ==
  /\ d.kind = e.kind /\ d.quantity = e.quantity
  /\ d.price = e.price /\ d.date = e.date

\* a document that add_operation inserted
Appended(d) == ~Has(d, "ticker")

\* C1 as claimed: a transaction that buy or sell appended for ticker T is
\* replayed by every later calculate_position(T, cutoff) with cutoff at or
\* after its date: an avgprice over all tickers that met no store error
\* calls calculate_position for T and the call's cursor holds it.
C1_WriteThenRead ==
  (/\ cmd.op = "avgprice" /\ ~cmd.filter.some
   /\ status = "ok" /\ pc = "repl"
   /\ \A j \in 1..Len(calls) : CompleteCall(calls[j]))
  => \A n \in CollNames : \A i \in 1..Len(db[n]) :
       (Appended(db[n][i]) /\ db[n][i].date <= BsonDate(Cutoff))
       => \E j \in 1..Len(calls) :
            /\ calls[j].ticker = n
            /\ \E k \in 1..Len(calls[j].docs) :
                 SameTransaction(calls[j].docs[k], db[n][i])

DistinctDates(s) == \A i, j \in 1..Len(s) : s[i].date = s[j].date => i = j

\* s in ascending order of date
SortByDate(s) ==
  LET p == CHOOSE p \in Orders(Len(s)) :
             \A i, j \in 1..Len(s) : i < j => s[p[i]].date <= s[p[j]].date
  IN  [i \in 1..Len(s) |-> s[p[i]]]

\* C2 as claimed: whatever the order of insertion, the Position is the fold
\* of the retrieved transactions in ascending order of timestamp (here even
\* for a store that returns them in the order of insertion).
C2_TimestampOrder ==
  \A j \in 1..Len(calls) :
    (/\ CompleteCall(calls[j])
     /\ calls[j].docs = Matching(db, calls[j].ticker, calls[j].date)
     /\ DistinctDates(calls[j].docs))
    => calls[j].pos = MkPosition(calls[j].ticker, Fold(SortByDate(calls[j].docs)))

\* the store without the documents dated after date
StoreUntil(store, date) ==
  LET Test(d) == Has(d, "date") /\ d.date <= BsonDate(date)
  IN  [store EXCEPT ![STOCKS] = SelectSeq(@, Test)]

Count(s, d) == Cardinality({i \in 1..Len(s) : s[i] = d})

\* C3: a call of calculate_position(ticker, cutoff) whose find() succeeded
\* replays only transactions of the ticker dated at or before the cutoff,
\* returns what it can return from the store with all later transactions
\* removed, and (its cursor not broken off) replays every transaction of the
\* ticker dated exactly at the cutoff.
C3_CutoffFilter ==
  \A j \in 1..Len(calls) :
    LET c == calls[j]
    IN  c.find = "ok" =>
          /\ \A k \in 1..Len(c.docs) :
               c.docs[k].ticker = c.ticker /\ c.docs[k].date <= BsonDate(c.date)
          /\ \E r \in CalculatePosition(StoreUntil(db, c.date), c.ticker, c.date) :
               r.docs = c.docs /\ r.pos = c.pos
          /\ ~c.cut =>
               \A i \in 1..Len(db[STOCKS]) :
                 LET d == db[STOCKS][i]
                 IN  (Has(d, "ticker") /\ d.ticker = c.ticker /\ d.date = BsonDate(c.date))
                     => Count(c.docs, d) = Count(db[STOCKS], d)

\* a complete call that replayed a transaction dated at the cutoff while the
\* store held a later one of the same ticker
C3_Witness ==
  \E j \in 1..Len(calls) :
    /\ CompleteCall(calls[j])
    /\ \E k \in 1..Len(calls[j].docs) : calls[j].docs[k].date = BsonDate(calls[j].date)
    /\ \E i \in 1..Len(db[STOCKS]) :
         /\ Has(db[STOCKS][i], "ticker")
         /\ db[STOCKS][i].ticker = calls[j].ticker
         /\ db[STOCKS][i].date > BsonDate(calls[j].date)
    /\ calls[j].pos.quantity # 0

\* C8 as claimed: when find() fails, calculate_position yields no Position
\* and avgprice prints no zero average for the ticker.
C8_NoPositionOnError ==
  \A j \in 1..Len(calls) :
    calls[j].find = "err" =>
      /\ calls[j].pos = NoPosition
      /\ ~\E k \in 1..Len(out) :
            /\ out[k].t = "avg"
            /\ out[k].ticker = calls[j].ticker
            /\ IsZero(out[k].average)

\* C9 as claimed: every stored transaction has a quantity above 0.
C9_PositiveQuantity ==
  \A n \in CollNames : \A i \in 1..Len(db[n]) : db[n][i].quantity > 0

\* the transaction a buy or sell statement describes, as the store holds it
Described(c) ==
  [kind     |-> IF c.op = "buy" THEN <<"B", "u", "y">> ELSE <<"S", "e", "l", "l">>,
   quantity |-> c.quantity,
   price    |-> ToF64(c.price),
   date     |-> BsonDate(IF c.date.some THEN c.date.v ELSE c.at)]

\* C10: no step removes or alters a stored transaction; avgprice and ls
\* leave the store as it is, and so does a buy or sell whose insert fails; a
\* buy or sell whose insert succeeds adds exactly the transaction it
\* describes (kind, quantity, price as f64, date in milliseconds) at the end
\* of the collection of its ticker.
C10_AppendOnly ==
  [][/\ \A n \in CollNames :
          /\ Len(db[n]) <= Len(db'[n])
          /\ SubSeq(db'[n], 1, Len(db[n])) = db[n]
     /\ nread' = nread + 1 =>
          IF cmd'.op \in {"buy", "sell"} /\ status' = "ok"
          THEN db' = [db EXCEPT ![cmd'.ticker] = Append(@, Described(cmd'))]
          ELSE db' = db]_vars

\* a buy or sell was appended behind an earlier transaction
C10_Witness ==
  /\ cmd.op \in {"buy", "sell"}
  /\ status = "ok"
  /\ Len(db[cmd.ticker]) >= 2
  /\ db[cmd.ticker][Len(db[cmd.ticker])] = Described(cmd)

(***************************************************************************)
(* Properties of the replay (ReplaySpec).                                  *)
(***************************************************************************)
\* the running totals before the document replayed last, and that document
Prev == Fold(SubSeq(rdocs, 1, ri - 1))

Last == rdocs[ri]

LastIs(kind) == ri >= 1 /\ ~rst.panic /\ OperationKindFromStr(Last.kind) = kind

\* x == y of f64
FEq(x, y) == ~IsNaN(x) /\ ~IsNaN(y) /\ (x = y \/ (IsZero(x) /\ IsZero(y)))

\* cost_value / quantity, as an f64
CostPerShare(st) == FDivInt(st.amount, st.quantity)

\* the division cost_value / quantity is exact: no rounding in it
ExactAverage(st) ==
  /\ IsFinite(st.amount)
  /\ st.quantity # 0
  /\ XMulInt(CostPerShare(st), st.quantity) = st.amount

SellWithin ==
  /\ LastIs("Sell")
  /\ Prev.quantity > 0
  /\ 0 < Last.quantity /\ Last.quantity < Prev.quantity

\* C4 as claimed: a Sell of 0 < q < Q shares leaves cost_value / quantity of
\* the remaining position equal to what it was before the sale.
C4_SellPreservesAverage ==
  SellWithin => FEq(CostPerShare(rst), CostPerShare(Prev))

SellWithinExact ==
  /\ SellWithin
  /\ ExactAverage(Prev)
  /\ Representable(XMulInt(CostPerShare(Prev), Last.quantity))
  /\ Representable(XMulInt(CostPerShare(Prev), Prev.quantity - Last.quantity))

\* C4 as amended: a Sell of 0 < q < Q shares leaves cost_value / quantity
\* unchanged whenever the average before the sale, avg = cost_value / Q, is
\* exact in f64 and avg * q and avg * (Q - q) are f64 values too (no step of
\* the sale rounds); the sale price is not used.
C4_SellPreservesExactAverage ==
  SellWithinExact =>
    /\ FEq(CostPerShare(rst), CostPerShare(Prev))
    /\ rst.quantity = Prev.quantity - Last.quantity
    /\ rst.amount = XMulInt(CostPerShare(Prev), rst.quantity)

C4_Witness ==
  /\ SellWithinExact
  /\ ~IsZero(Prev.amount)
  /\ rst.quantity > 0

SellAll ==
  /\ LastIs("Sell")
  /\ Prev.quantity > 0
  /\ Last.quantity = Prev.quantity

\* C5 as claimed: a Sell of all Q > 0 shares drives quantity to 0 and
\* cost_value to 0, and the Position then has average_price 0.
C5_FullLiquidation ==
  SellAll =>
    /\ rst.quantity = 0
    /\ IsZero(rst.amount)
    /\ IsZero(MkPosition(Last.ticker, rst).average_price)

\* C5 as amended: a Sell of all Q > 0 shares drives quantity to 0 and the
\* Position's average_price to 0; cost_value becomes 0 when the average
\* before the sale is exact in f64, and is otherwise what rounding leaves of
\* cost_value - (cost_value / Q) * Q.
C5_FullLiquidationExact ==
  SellAll =>
    /\ rst.quantity = 0
    /\ IsZero(MkPosition(Last.ticker, rst).average_price)
    /\ ExactAverage(Prev) => IsZero(rst.amount)

C5_Witness ==
  /\ SellAll
  /\ ExactAverage(Prev)
  /\ ~IsZero(Prev.amount)
  /\ IsZero(rst.amount)

RECURSIVE SumQuantity(_, _)
SumQuantity(docs, n) ==
  IF n = 0 THEN 0 ELSE SumQuantity(docs, n - 1) + docs[n].quantity

\* the sum of p_i * q_i over the first n documents, not rounded
RECURSIVE ExactCost(_, _)
ExactCost(docs, n) ==
  IF n = 0 THEN Zero(0)
  ELSE XAdd(ExactCost(docs, n - 1), XMulInt(docs[n].price, docs[n].quantity))

\* every product and every partial sum is an f64
AllExact(docs) ==
  \A i \in 1..Len(docs) :
    /\ Representable(XMulInt(docs[i].price, docs[i].quantity))
    /\ Representable(ExactCost(docs, i))

\* calculate_position has returned from a non-empty cursor of Buys
ReturnedBuysOnly ==
  /\ rpos # NoPosition
  /\ rdocs # <<>>
  /\ \A i \in 1..Len(rdocs) :
       OperationKindFromStr(rdocs[i].kind) = "Buy" /\ rdocs[i].quantity > 0

\* C6 as claimed: Buys only give quantity = sum q_i, cost_value = sum p_i*q_i
\* and average_price = sum p_i*q_i / sum q_i (its nearest f64).
C6_BuyOnlyAverage ==
  ReturnedBuysOnly =>
    /\ rpos.quantity = SumQuantity(rdocs, Len(rdocs))
    /\ rpos.value = ExactCost(rdocs, Len(rdocs))
    /\ rpos.average_price =
         FDivInt(ExactCost(rdocs, Len(rdocs)), SumQuantity(rdocs, Len(rdocs)))

\* C6 as amended: Buys only give quantity = sum q_i; when every product
\* p_i * q_i and every partial sum of them is an f64 value, cost_value is
\* sum p_i*q_i and average_price is the f64 nearest to
\* sum p_i*q_i / sum q_i; in any case cost_value is the sum taken in f64,
\* rounded after each product and each addition.
C6_BuyOnlyExactAverage ==
  ReturnedBuysOnly =>
    /\ rpos.quantity = SumQuantity(rdocs, Len(rdocs))
    /\ AllExact(rdocs) =>
         /\ rpos.value = ExactCost(rdocs, Len(rdocs))
         /\ rpos.average_price =
              FDivInt(ExactCost(rdocs, Len(rdocs)), SumQuantity(rdocs, Len(rdocs)))

C6_Witness ==
  /\ ReturnedBuysOnly
  /\ Len(rdocs) >= 2
  /\ AllExact(rdocs)
  /\ rdocs[1].price # rdocs[2].price

SellFromZero == LastIs("Sell") /\ Prev.quantity = 0 /\ IsZero(Prev.amount)

\* C7 as claimed: a Sell of q replayed on a zero position leaves cost_value 0
\* and makes quantity -q, without a division by zero: the Position's
\* average_price is a number.
C7_SellFromZero ==
  SellFromZero =>
    /\ IsZero(rst.amount)
    /\ rst.quantity = 0 - Last.quantity
    /\ IsFinite(MkPosition(Last.ticker, rst).average_price)

(***************************************************************************)
(* Further properties of the program (Spec).                               *)
(***************************************************************************)
\* C11 as claimed: two calls of calculate_position for the same ticker and
\* the same explicit cutoff, with no write between them, return identical
\* Positions: an avgprice that follows an avgprice with the same until (no
\* buy or sell between them) gets, for every ticker, the Position the first
\* one got, both calls having met no store error.
C11_IdempotentRead ==
  [][(/\ nread' = nread + 1
      /\ cmd.op = "avgprice" /\ cmd'.op = "avgprice"
      /\ cmd.until.some /\ cmd'.until = cmd.until)
     => \A i \in 1..Len(calls), j \in 1..Len(calls') :
          (/\ calls[i].ticker = calls'[j].ticker
           /\ CompleteCall(calls[i]) /\ CompleteCall(calls'[j]))
          => calls[i].pos = calls'[j].pos]_vars

\* the tickers avgprice printed an average for, in the order of printing
Reported ==
  LET IsAvg(e) == e.t = "avg"
      avgs == SelectSeq(out, IsAvg)
  IN  [i \in 1..Len(avgs) |-> avgs[i].ticker]

\* the tickers met in the database: names of collections and ticker fields
TickersKnown ==
  CollNames \cup {db[STOCKS][i].ticker :
                    i \in {j \in 1..Len(db[STOCKS]) : Has(db[STOCKS][j], "ticker")}}

\* ticker has a stored transaction: one that buy or sell appended for it, or a
\* document of "stocks" that names it
HasTransaction(ticker) ==
  \/ ticker \in CollNames /\ \E i \in 1..Len(db[ticker]) : Appended(db[ticker][i])
  \/ \E i \in 1..Len(db[STOCKS]) :
       Has(db[STOCKS][i], "ticker") /\ db[STOCKS][i].ticker = ticker

MatchesFilter(ticker, filter) == filter.some => RegexMatch(filter.v, ticker)

\* C12 as claimed: an avgprice that met no store error reports every ticker
\* that has a stored transaction and matches the filter, each once, and no
\* other ticker, each with the average_price its call of calculate_position
\* gave, in the order of the calls.
C12_ReportsEveryTicker ==
  (/\ cmd.op = "avgprice" /\ status = "ok" /\ pc = "repl"
   /\ \A j \in 1..Len(calls) : CompleteCall(calls[j]))
  => /\ \A i, j \in 1..Len(Reported) : Reported[i] = Reported[j] => i = j
     /\ \A i \in 1..Len(Reported) :
          HasTransaction(Reported[i]) /\ MatchesFilter(Reported[i], cmd.filter)
     /\ \A ticker \in TickersKnown :
          (HasTransaction(ticker) /\ MatchesFilter(ticker, cmd.filter))
          => \E i \in 1..Len(Reported) : Reported[i] = ticker
     /\ Len(Reported) = Len(calls)
     /\ \A i \in 1..Len(calls) :
          /\ Reported[i] = calls[i].ticker
          /\ SelectSeq(out, LAMBDA e : e.t = "avg")[i].average
               = calls[i].pos.average_price

(***************************************************************************)
(* Properties of run (RunSpec).                                            *)
(***************************************************************************)
\* the commands that the lines parse to, in the order of the lines
RECURSIVE CommandsOf(_)
CommandsOf(lines) ==
  IF lines = <<>> THEN <<>>
  ELSE LET st == parse_line(Head(lines)).statement
       IN  (IF st.some THEN <<st.v>> ELSE <<>>) \o CommandsOf(Tail(lines))

ReplMode == args = <<>>

\* the loop has been left, by break or by a panic
LoopEnded == pc \in {"done", "panicked"}

\* C13 as claimed: in REPL mode a line that does not parse to a command is
\* discarded (no command dispatched, no store operation) and the loop reads
\* on; the commands dispatched are exactly those the lines read parse to, in
\* the order of the lines; and the loop ends only when readline reports
\* end-of-input or interrupt (a failure of readline itself is taken as the
\* end of the input here).
C13_ReplLoop ==
  ReplMode =>
    /\ log = CommandsOf(reads)
    /\ \A k \in 1..Len(ops) : ops[k].n \in 1..Len(log)
    /\ (rl.r = "line" /\ ~rl.statement.some) => pc = "repl"
    /\ LoopEnded => rl.r \in {"eof", "interrupted", "error"}

InsertsFor(o, n) == Cardinality({k \in 1..Len(o) : o[k].op = "insert" /\ o[k].n = n})

\* C15: a buy or sell whose insert fails prints the error, makes exactly
\* that one insert attempt, leaves the database as it was, and in REPL mode
\* leaves run in the loop; no command makes more than one insert attempt.
C15_FailedWriteAbandoned ==
  [][/\ (/\ Len(log') = Len(log) + 1
         /\ log'[Len(log')].op \in {"buy", "sell"}
         /\ status' = "err")
        => /\ db' = db
           /\ out'[1] = [t |-> "error"]
           /\ ops' = Append(ops, Op("insert", Len(log'), FALSE))
           /\ ReplMode => pc' = "repl"
     /\ \A n \in 1..Len(log') : InsertsFor(ops', n) <= 1]_vars

\* in REPL mode an insert failed and a later line was dispatched
C15_Witness ==
  /\ ReplMode
  /\ \E k \in 1..Len(ops) :
       ops[k].op = "insert" /\ ~ops[k].ok /\ ops[k].n < Len(log)

(***************************************************************************)
(* Properties of the replay over unreadable documents (AnomalySpec).       *)
(***************************************************************************)
\* an anomaly as the claim lists them: a field is missing, or the kind is
\* neither "Buy" nor "Sell"
Anomalous(doc) ==
  \/ ~Has(doc, "quantity") \/ ~Has(doc, "kind") \/ ~Has(doc, "price")
  \/ doc.kind \notin {KindChars("Buy"), KindChars("Sell")}

\* C16 as claimed: a retrieved record with a missing quantity, kind or price
\* or with a kind other than Buy/Sell aborts the replay: no Position.
C16_AnomalyAborts ==
  (\E i \in 1..Len(rdocs) : Anomalous(rdocs[i])) => rpos = NoPosition

\* what the loop cannot read: no quantity, no kind, a kind that is not
\* buy or sell in any casing, or a Buy without price
Unreadable(doc) ==
  \/ ~Has(doc, "quantity") \/ ~Has(doc, "kind")
  \/ OperationKindFromStr(doc.kind) = "Err"
  \/ OperationKindFromStr(doc.kind) = "Buy" /\ ~Has(doc, "price")

FirstUnreadable ==
  CHOOSE i \in 1..Len(rdocs) :
    Unreadable(rdocs[i]) /\ \A j \in 1..(i - 1) : ~Unreadable(rdocs[j])

\* C16 as amended: a retrieved record without quantity or kind, with a kind
\* that is not buy or sell in any casing, or a Buy without price, aborts the
\* replay at that record: the call panics and no Position is produced,
\* whatever the other records are.  A Sell without price and a kind in
\* another casing are replayed like any other record, and a cursor without
\* unreadable record returns the Position of the fold.
C16_UnreadableAborts ==
  IF \E i \in 1..Len(rdocs) : Unreadable(rdocs[i])
  THEN /\ rpos = NoPosition
       /\ ri <= FirstUnreadable
       /\ rst.panic <=> ri = FirstUnreadable
  ELSE /\ ~rst.panic
       /\ rpos # NoPosition => rpos = MkPosition(<<"A">>, Fold(rdocs))

\* the replay was aborted by the third record after two that count
C16_Witness ==
  /\ rst.panic
  /\ ri = 3
  /\ rst.quantity # 0
  /\ rpos = NoPosition

(***************************************************************************)
(* Further properties of the replay (ReplaySpec).                          *)
(***************************************************************************)
\* buy quantities minus sell quantities over the first n documents
RECURSIVE NetQuantity(_, _)
NetQuantity(docs, n) ==
  IF n = 0 THEN 0
  ELSE NetQuantity(docs, n - 1)
       + (IF OperationKindFromStr(docs[n].kind) = "Buy"
          THEN docs[n].quantity ELSE 0 - docs[n].quantity)

\* C17: at every point of the replay total_quantity is the sum of the buy
\* quantities minus the sum of the sell quantities replayed so far, sells
\* beyond the holding included, and the Position returned carries that sum
\* over all documents; it may be negative.
C17_QuantityRunningSum ==
  /\ rst.quantity = NetQuantity(rdocs, ri)
  /\ rpos # NoPosition => rpos.quantity = NetQuantity(rdocs, Len(rdocs))

\* a Position with a negative quantity: more sold than bought
C17_Witness ==
  /\ rpos # NoPosition
  /\ rpos.quantity < 0
  /\ \E i \in 1..Len(rdocs) : OperationKindFromStr(rdocs[i].kind) = "Buy"
  /\ \E i \in 1..Len(rdocs) :
       /\ OperationKindFromStr(rdocs[i].kind) = "Sell"
       /\ rdocs[i].quantity > Fold(SubSeq(rdocs, 1, i - 1)).quantity
       /\ Fold(SubSeq(rdocs, 1, i - 1)).quantity > 0

\* docs in the order p
Permuted(docs, p) == [i \in 1..Len(docs) |-> docs[p[i]]]

\* C19 as claimed: replaying a set of Buys in any order gives the same
\* quantity, cost_value and average_price.
C19_BuyOrderIrrelevant ==
  ReturnedBuysOnly =>
    \A p \in Orders(Len(rdocs)) :
      MkPosition(<<"A">>, Fold(Permuted(rdocs, p))) = rpos

\* one Buy of 1 @ 100, one of 1 @ 200 and a Sell of 1, the Sell last and
\* the Sell between the Buys
SellLast ==
  <<[kind |-> KindChars("Buy"), quantity |-> 1, price |-> FromInt(100)],
    [kind |-> KindChars("Buy"), quantity |-> 1, price |-> FromInt(200)],
    [kind |-> KindChars("Sell"), quantity |-> 1, price |-> FromInt(100)]>>

SellBetween == <<SellLast[1], SellLast[3], SellLast[2]>>

\* C19 as amended: replaying a set of Buys in any order gives the same
\* quantity; it gives the same cost_value and average_price for two Buys,
\* and for more whenever no product and no partial sum is rounded in either
\* order; otherwise cost_value may differ in its last bits with the order.
\* The result of a replay with Sells depends on the order: Buy 1 @ 100,
\* Buy 1 @ 200, Sell 1 leaves cost_value 150, and with the Sell between
\* the Buys 200.
C19_BuyOrderExact ==
  /\ ReturnedBuysOnly =>
       \A p \in Orders(Len(rdocs)) :
         LET q == MkPosition(<<"A">>, Fold(Permuted(rdocs, p)))
         IN  /\ q.quantity = rpos.quantity
             /\ (Len(rdocs) <= 2 \/ (AllExact(rdocs) /\ AllExact(Permuted(rdocs, p))))
                => q = rpos
  /\ Fold(SellLast).amount = FromInt(150)
  /\ Fold(SellBetween).amount = FromInt(200)

\* three Buys at two prices whose sums are exact in the order replayed
C19_Witness ==
  /\ ReturnedBuysOnly
  /\ Len(rdocs) = 3
  /\ rdocs[1].price # rdocs[2].price
  /\ rdocs[1].quantity # rdocs[3].quantity
  /\ AllExact(rdocs)

NotQuote(c) == c # "\""

QuotesBefore(line, i) == Cardinality({j \in 1..(i - 1) : line[j] = "\""})

\* position i of line lies inside a quoted section
Quoted(line, i) == QuotesBefore(line, i) % 2 = 1

\* the positions of the spaces outside quotes
Separators(line) == {i \in 1..Len(line) : line[i] = " " /\ ~Quoted(line, i)}

\* the position that ends segment k: the k-th separator, or the end of line
Boundary(line, k) ==
  IF k = 0 THEN 0
  ELSE IF k > Cardinality(Separators(line)) THEN Len(line) + 1
  ELSE CHOOSE i \in Separators(line) :
         Cardinality({j \in Separators(line) : j < i}) = k - 1

\* the text between two boundaries without its quote characters
Segment(line, k) ==
  SelectSeq(SubSeq(line, Boundary(line, k - 1) + 1, Boundary(line, k) - 1), NotQuote)

\* the line cut at every separator; text after the last one counts when
\* there is any
SplitOutsideQuotes(line) ==
  LET n == Cardinality(Separators(line))
  IN  [k \in 1..(IF Segment(line, n + 1) = <<>> THEN n ELSE n + 1) |-> Segment(line, k)]

SpacesIn(s) == Cardinality({i \in 1..Len(s) : s[i] = " "})

RECURSIVE SpacesInAll(_)
SpacesInAll(parts) ==
  IF parts = <<>> THEN 0 ELSE SpacesIn(Head(parts)) + SpacesInAll(Tail(parts))

\* C18: tokenize_line cuts a line at the spaces outside double quotes and
\* nowhere else: the spaces inside quotes are all in the tokens, no token
\* holds a quote character; "Unmatched quote" is reported exactly for an odd
\* number of quotes, and then the tokens are those of the line with the
\* quote closed at its end, and they are what the parser is given.
C18_SplitOutsideQuotes ==
  tok.done =>
    /\ tok.ret.parts = SplitOutsideQuotes(tok.line)
    /\ \A k \in 1..Len(tok.ret.parts) :
         \A i \in 1..Len(tok.ret.parts[k]) : tok.ret.parts[k][i] # "\""
    /\ SpacesInAll(tok.ret.parts)
         = Cardinality({i \in 1..Len(tok.line) : tok.line[i] = " " /\ Quoted(tok.line, i)})
    /\ tok.ret.unmatched = Quoted(tok.line, Len(tok.line) + 1)
    /\ tok.ret.unmatched =>
         /\ tok.ret.parts = tokenize_line(Append(tok.line, "\"")).parts
         /\ \E m \in 1..Len(parse_line(tok.line).out) :
              parse_line(tok.line).out[m] = [t |-> "parts", parts |-> tok.ret.parts]

\* a line with an unterminated quote whose last token holds a space, after
\* a token cut off at a space outside the quotes
C18_Witness ==
  /\ tok.done
  /\ tok.ret.unmatched
  /\ Len(tok.ret.parts) = 2
  /\ tok.ret.parts[1] # <<>>
  /\ SpacesIn(tok.ret.parts[2]) = 1

\* C20 as claimed: a line without quotes never gives an empty token.
C20_NoEmptyToken ==
  (tok.done /\ \A i \in 1..Len(tok.line) : tok.line[i] # "\"")
    => \A k \in 1..Len(tok.ret.parts) : tok.ret.parts[k] # <<>>
====
